---- MODULE Spec2Model ----
(***************************************************************************)
(* Model of get-rs: the request-component grammar parser (src/parser.rs)   *)
(* and the path-addressed JSON tree builder (src/json_builder.rs).         *)
(*                                                                         *)
(* Spec         the fold of json_builder::build over a list of body        *)
(*              fragments, one loop iteration per step.                    *)
(* SpecParse    parser::parse_component applied to one input token.        *)
(* SpecInputs   parser::ParsedRequest::from_inputs over a list of tokens,  *)
(*              one loop iteration per step.                               *)
(* SpecBuilder  RequestBuilder::merge_headers and RequestBuilder::add_data *)
(*              (src/request_builder.rs) called on a new RequestBuilder.   *)
(***************************************************************************)
EXTENDS Integers, Sequences, FiniteSets, TLC

VARIABLES
    values,     \* build: the fragments of `values` the loop has consumed
    root,       \* build: the document tree `root`
    prev_root,  \* build: `root` as it was when the last iteration began
    result,     \* build: "" while no iteration failed, else the error text
    pc,         \* build: "loop" | "ok" (returned Ok) | "err" (returned Err);
                \* "idle" when build is not running
    token,      \* parse_component: the input string, as a sequence of chars
    component,  \* parse_component: the Result it returned
    stage,      \* parse_component: "input" | "parsed"; "idle" when not running
    inputs,     \* from_inputs: the argument `inputs`, a sequence of tokens
    next_input, \* from_inputs: index of the input the loop takes next
    query,      \* from_inputs: the local `query`
    headers,    \* from_inputs: the local `headers`
    body_values, \* from_inputs: the local `body`
    parsed_request, \* from_inputs: the Result it returned, NotReturned before
    builder,    \* RequestBuilder: the Result<Self> of the last call
    call        \* RequestBuilder: the last call, its arguments and its `self`

buildVars == <<values, root, prev_root, result, pc>>
parseVars == <<token, component, stage>>
inputsVars == <<inputs, next_input, query, headers, body_values, parsed_request>>
builderVars == <<builder, call>>
vars == <<buildVars, parseVars, inputsVars, builderVars>>

(***************************************************************************)
(* Bounds of the model.                                                    *)
(***************************************************************************)
MaxFrags == 3      \* fragments in one fold
MaxPathLen == 2    \* accessors in one fragment's path
MaxIndex == 1      \* largest ArrayIndex drawn
MaxInputs == 3     \* tokens in one call of from_inputs
MaxFieldLen == 2   \* characters of a header name or value
MaxCalls == 2      \* calls on one RequestBuilder
MaxTokLen == 5     \* characters in one input token

(***************************************************************************)
(* serde_json::Value.  Objects are maps from member name to value, arrays  *)
(* are sequences (0-based index i is element i + 1).                       *)
(***************************************************************************)
Null == [k |-> "null"]
JString(s) == [k |-> "string", s |-> s]
JNumber(n) == [k |-> "number", n |-> n]
JObject(m) == [k |-> "object", m |-> m]
JArray(e) == [k |-> "array", e |-> e]
EmptyMap == [x \in {} |-> Null]

is_null(v) == v.k = "null"
is_object(v) == v.k = "object"
is_array(v) == v.k = "array"

(***************************************************************************)
(* json_builder::PathAccess                                                *)
(***************************************************************************)
ObjectKey(key) == [k |-> "ObjectKey", key |-> key]
ArrayIndex(i) == [k |-> "ArrayIndex", index |-> i]
ArrayEnd == [k |-> "ArrayEnd"]

(***************************************************************************)
(* parser::BodyValue                                                       *)
(***************************************************************************)
BodyString(path, value) == [k |-> "String", path |-> path, value |-> value]
BodyJSON(path, value) == [k |-> "JSON", path |-> path, value |-> value]

(***************************************************************************)
(* serde_json::from_str on the raw texts the model draws: the parsed value *)
(* or a syntax error.                                                      *)
(***************************************************************************)
from_str(text) ==
    CASE text = "null" -> [ok |-> TRUE, value |-> Null]
      [] text = "1" -> [ok |-> TRUE, value |-> JNumber(1)]
      [] text = "[]" -> [ok |-> TRUE, value |-> JArray(<<>>)]
      [] text = "{}" -> [ok |-> TRUE, value |-> JObject(EmptyMap)]
      [] text = "\"c\"" -> [ok |-> TRUE, value |-> JString("c")]
      [] text = "{\"b\":\"c\"}" -> [ok |-> TRUE, value |-> JObject("b" :> JString("c"))]
      [] OTHER -> [ok |-> FALSE, value |-> Null]

(***************************************************************************)
(* The statements of json_builder::put_value, one operator each.           *)
(***************************************************************************)
\* `*root = value` of the base case
assign_accumulate(node, value) ==
    IF is_null(node) THEN value ELSE JArray(<<node, value>>)

assign_keep_first(node, value) == IF is_null(node) THEN value ELSE node

assign(node, value) == value

\* `if root.is_null() { *root = json!({}) }`
null_to_object_coerce(node) ==
    IF is_object(node) THEN node ELSE JObject(EmptyMap)

null_to_object(node) == IF is_null(node) THEN JObject(EmptyMap) ELSE node

\* `if root.is_null() { *root = json!([]) }`
null_to_array_coerce(node) == IF is_array(node) THEN node ELSE JArray(<<>>)

null_to_array(node) == IF is_null(node) THEN JArray(<<>>) ELSE node

\* `root.as_object_mut()` and `root.as_array_mut()` are Some
as_object_mut(node) == is_object(node)
as_array_mut(node) == is_array(node)

\* `obj.entry(key).or_insert(json!(null))`
or_insert_alone(m, key) == key :> (IF key \in DOMAIN m THEN m[key] ELSE Null)

or_insert(m, key) == IF key \in DOMAIN m THEN m ELSE m @@ (key :> Null)

\* `arr.resize(index + 1, json!(null))`, called only when index >= arr.len()
resize_one_more(e, n) == e \o [j \in 1..(n + 1 - Len(e)) |-> Null]

resize(e, n) == e \o [j \in 1..(n - Len(e)) |-> Null]

\* `arr.push(json!(null))`
push_front(e) == <<Null>> \o e

push(e) == Append(e, Null)

\* `let last_index = arr.len() - 1`
last_index_first(e) == 0

last_index(e) == Len(e) - 1

(***************************************************************************)
(* json_builder::put_value.  The tree is mutated in place, so the tree     *)
(* after the call is returned with the Result, also when that is an Err.   *)
(***************************************************************************)
RECURSIVE put_value(_, _, _)
put_value(node, path, value) ==
    IF path = <<>>
    THEN [err |-> "", root |-> assign(node, value)]
    ELSE LET acc == Head(path)
             rest == Tail(path)
         IN CASE acc.k = "ObjectKey" ->
                  LET r1 == null_to_object(node)
                  IN IF ~as_object_mut(r1)
                     THEN [err |-> "expect object root", root |-> r1]
                     ELSE LET obj == or_insert(r1.m, acc.key)
                              sub == put_value(obj[acc.key], rest, value)
                          IN [err |-> sub.err,
                              root |-> JObject([obj EXCEPT ![acc.key] = sub.root])]
              [] acc.k = "ArrayIndex" ->
                  LET r1 == null_to_array(node)
                  IN IF ~as_array_mut(r1)
                     THEN [err |-> "expect array root", root |-> r1]
                     ELSE LET index == acc.index
                              arr == IF index >= Len(r1.e)
                                     THEN resize(r1.e, index + 1)
                                     ELSE r1.e
                              sub == put_value(arr[index + 1], rest, value)
                          IN [err |-> sub.err,
                              root |-> JArray([arr EXCEPT ![index + 1] = sub.root])]
              [] acc.k = "ArrayEnd" ->
                  LET r1 == null_to_array(node)
                  IN IF ~as_array_mut(r1)
                     THEN [err |-> "expect array root", root |-> r1]
                     ELSE LET arr == push(r1.e)
                              last == last_index(arr)
                              sub == put_value(arr[last + 1], rest, value)
                          IN [err |-> sub.err,
                              root |-> JArray([arr EXCEPT ![last + 1] = sub.root])]

(***************************************************************************)
(* Characters.  A &str is a sequence of one-character strings; Code gives  *)
(* the code point of each character the model uses, for range patterns.    *)
(***************************************************************************)
Code == [c \in {"A", "Z", "a", "z", "0", "1", "2", "3", "4", "5", "6", "7", "8", "9",
                 " ", "=", ":", "[", "]", ".", "_", "-", "\n"} |->
            CASE c = "A" -> 65 [] c = "Z" -> 90 [] c = "a" -> 97 [] c = "z" -> 122
              [] c = "0" -> 48 [] c = "1" -> 49 [] c = "2" -> 50 [] c = "3" -> 51
              [] c = "4" -> 52 [] c = "5" -> 53 [] c = "6" -> 54 [] c = "7" -> 55
              [] c = "8" -> 56 [] c = "9" -> 57 [] c = " " -> 32 [] c = "=" -> 61
              [] c = "\n" -> 10
              [] c = ":" -> 58 [] c = "[" -> 91 [] c = "]" -> 93 [] c = "." -> 46
              [] c = "_" -> 95 [] c = "-" -> 45]

\* Rust's half-open range `(lo..hi).contains(&c)`
range_contains(lo, hi, c) == Code[lo] <= Code[c] /\ Code[c] < Code[hi]

\* char::to_digit(10)
is_digit(c) == Code["0"] <= Code[c] /\ Code[c] <= Code["9"]
to_digit(c) == Code[c] - Code["0"]

\* str::to_string: the text of a sequence of characters
RECURSIVE to_string(_)
to_string(chars) ==
    IF chars = <<>> THEN "" ELSE Head(chars) \o to_string(Tail(chars))


(***************************************************************************)
(* nom combinators.  An IResult is Ok((rest, out)) or Err(Error).          *)
(***************************************************************************)
Err == [ok |-> FALSE]
Ok(rest, out) == [ok |-> TRUE, rest |-> rest, out |-> out]
Drop(input, n) == SubSeq(input, n + 1, Len(input))

\* bytes::complete::tag
tag(t, input) ==
    IF Len(t) <= Len(input) /\ SubSeq(input, 1, Len(t)) = t
    THEN Ok(Drop(input, Len(t)), t)
    ELSE Err

\* bytes::complete::take_while1: the longest non-empty prefix of characters
\* satisfying the predicate, given as the set of the characters that do
Chars == DOMAIN Code

take_while1(accepted, input) ==
    LET n == CHOOSE j \in 0..Len(input) :
                 /\ \A i \in 1..j : input[i] \in accepted
                 /\ j < Len(input) => input[j + 1] \notin accepted
    IN IF n = 0 THEN Err ELSE Ok(Drop(input, n), SubSeq(input, 1, n))

\* character::complete::u32: a non-empty run of digits, folded with
\* checked_mul(10) and checked_add(digit); an overflow of u32 is an Error.
\* u32::MAX = 4294967295 exceeds the integers of the model checker, so the
\* running value is kept as two decimal limbs, value = hi * Limb + lo.
Limb == 100000
U32MaxHi == 42949
U32MaxLo == 67295
SmallHi == 21474

u32_wraps(v) == FALSE

u32_overflows(v) == v.hi > U32MaxHi \/ (v.hi = U32MaxHi /\ v.lo > U32MaxLo)

RECURSIVE digits_value(_, _)
digits_value(digits, acc) ==
    IF digits = <<>> \/ u32_overflows(acc) THEN acc
    ELSE LET low == acc.lo * 10 + to_digit(Head(digits))
         IN digits_value(Tail(digits),
                         [hi |-> acc.hi * 10 + (low \div Limb), lo |-> low % Limb])

\* the u32 as an integer of the model where it fits, as its limbs otherwise
u32_value(v) == IF v.hi < SmallHi THEN v.hi * Limb + v.lo ELSE v

u32(input) ==
    LET run == take_while1({c \in Chars : is_digit(c)}, input)
    IN IF ~run.ok THEN Err
       ELSE LET v == digits_value(run.out, [hi |-> 0, lo |-> 0])
            IN IF u32_overflows(v) THEN Err ELSE Ok(run.rest, u32_value(v))

\* sequence::delimited(tag(open), inner, tag(close)), given the results of
\* the opening tag and of `inner` on what follows it
delimited(o, i, close) ==
    IF ~o.ok \/ ~i.ok THEN Err
    ELSE LET c == tag(close, i.rest)
         IN IF ~c.ok THEN Err ELSE Ok(c.rest, i.out)

\* sequence::preceded(tag(first), inner), given the same two results
preceded(f, i) == IF ~f.ok THEN Err ELSE i

\* sequence::separated_pair(first, tag(sep), second), given the results of
\* `first`, of the separator after it and of `second` after that
separated_pair(a, sep, b) ==
    IF ~a.ok \/ ~sep.ok \/ ~b.ok THEN Err ELSE Ok(b.rest, <<a.out, b.out>>)

\* the result of the parser that follows one that failed
Skipped == Err

\* branch::alt over two and three alternatives, given their results
alt2(r1, r2) == IF r1.ok THEN r1 ELSE r2
alt3(r1, r2, r3) == IF r1.ok THEN r1 ELSE IF r2.ok THEN r2 ELSE r3

(***************************************************************************)
(* parser::RequestComponent                                                *)
(***************************************************************************)
QueryParam(name, value) == [k |-> "QueryParam", name |-> name, value |-> value]
Header(key, value) == [k |-> "Header", key |-> key, value |-> value]
BodyValue(value) == [k |-> "BodyValue", value |-> value]

(***************************************************************************)
(* parser::object_key, array_index, array_end                              *)
(***************************************************************************)
is_raw_object_key_char(c) == c # "." /\ c # "[" /\ c # "=" /\ c # ":"
is_bracket_key_char(c) == c # "]"
raw_object_key(input) ==
    take_while1({c \in Chars : is_raw_object_key_char(c)}, input)
bracket_key(input) ==
    take_while1({c \in Chars : is_bracket_key_char(c)}, input)

object_key(input) ==
    LET open == tag(<<"[">>, input)
        dot == tag(<<".">>, input)
        r == alt3(delimited(open,
                            IF open.ok THEN bracket_key(open.rest) ELSE Skipped,
                            <<"]">>),
                  preceded(dot, IF dot.ok THEN raw_object_key(dot.rest) ELSE Skipped),
                  raw_object_key(input))
    IN IF ~r.ok THEN Err ELSE Ok(r.rest, ObjectKey(to_string(r.out)))

array_index(input) ==
    LET open == tag(<<"[">>, input)
        dot == tag(<<".">>, input)
        r == alt3(delimited(open, IF open.ok THEN u32(open.rest) ELSE Skipped, <<"]">>),
                  preceded(dot, IF dot.ok THEN u32(dot.rest) ELSE Skipped),
                  u32(input))
    IN IF ~r.ok THEN Err ELSE Ok(r.rest, ArrayIndex(r.out))

array_end(input) ==
    LET r == tag(<<"[", "]">>, input)
    IN IF ~r.ok THEN Err ELSE Ok(r.rest, ArrayEnd)

(***************************************************************************)
(* parser::body: many0(alt((array_index, object_key, array_end))), then    *)
(* the assignment operator; the rest of the input is the value.            *)
(***************************************************************************)
path_access(input) == alt3(array_index(input), object_key(input), array_end(input))

RECURSIVE many0_path_access(_, _)
many0_path_access(input, acc) ==
    LET r == path_access(input)
    IN IF ~r.ok THEN Ok(input, acc)
       ELSE IF Len(r.rest) = Len(input) THEN Err
       ELSE many0_path_access(r.rest, Append(acc, r.out))

assign_op(input) ==
    alt2(LET r == tag(<<":", "=">>, input) IN IF r.ok THEN Ok(r.rest, TRUE) ELSE Err,
         LET r == tag(<<"=">>, input) IN IF r.ok THEN Ok(r.rest, FALSE) ELSE Err)

body(input) ==
    LET keys == many0_path_access(input, <<>>)
    IN IF ~keys.ok THEN Err
       ELSE LET op == assign_op(keys.rest)
            IN IF ~op.ok THEN Err
               ELSE IF op.out
                    THEN Ok(<<>>, BodyValue(BodyJSON(keys.out, to_string(op.rest))))
                    ELSE Ok(<<>>, BodyValue(BodyString(keys.out, to_string(op.rest))))

(***************************************************************************)
(* parser::query_param, query_param_key, query_param_value                 *)
(***************************************************************************)
is_query_param_key_char_no_space(c) == c # "=" /\ c # " "

is_query_param_key_char(c) == c # "="

any_char_but_space(c) == c # " "

any_char(c) == TRUE

query_param_key(input) ==
    take_while1({c \in Chars : is_query_param_key_char(c)}, input)

query_param_value_to_space(input) ==
    take_while1({c \in Chars : any_char_but_space(c)}, input)

query_param_value(input) == take_while1({c \in Chars : any_char(c)}, input)

query_param(input) ==
    LET name == query_param_key(input)
        sep == IF name.ok THEN tag(<<"=", "=">>, name.rest) ELSE Skipped
        value == IF sep.ok THEN query_param_value(sep.rest) ELSE Skipped
        r == separated_pair(name, sep, value)
    IN IF ~r.ok THEN Err
       ELSE Ok(r.rest, QueryParam(to_string(r.out[1]), to_string(r.out[2])))

(***************************************************************************)
(* parser::header, header_name, header_value                               *)
(***************************************************************************)
is_header_name_char(c) ==
    \/ range_contains("A", "Z", c)
    \/ range_contains("a", "z", c)
    \/ range_contains("0", "9", c)
    \/ c = "_"
    \/ c = "-"

header_name(input) ==
    take_while1({c \in Chars : is_header_name_char(c)}, input)
\* take_while0 in place of take_while1: an empty value is accepted
header_value_or_empty(input) ==
    IF input = <<>> THEN Ok(<<>>, <<>>)
    ELSE take_while1({c \in Chars : any_char(c)}, input)

header_value(input) == take_while1({c \in Chars : any_char(c)}, input)

header(input) ==
    LET name == header_name(input)
        sep == IF name.ok THEN tag(<<":">>, name.rest) ELSE Skipped
        value == IF sep.ok THEN header_value(sep.rest) ELSE Skipped
        r == separated_pair(name, sep, value)
    IN IF ~r.ok THEN Err
       ELSE Ok(r.rest, Header(to_string(r.out[1]), to_string(r.out[2])))

(***************************************************************************)
(* parser::parse_component                                                 *)
(***************************************************************************)
NoComponent == [k |-> "none"]

component_result(r) ==
    IF r.ok
    THEN IF r.rest = <<>>
         THEN [ok |-> TRUE, component |-> r.out, err |-> ""]
         ELSE [ok |-> FALSE, component |-> NoComponent,
               err |-> "Remainder found in request component"]
    ELSE [ok |-> FALSE, component |-> NoComponent, err |-> "Invalid request component"]

parse_component_header_first(input) ==
    component_result(alt3(query_param(input), header(input), body(input)))

parse_component(input) ==
    component_result(alt3(query_param(input), body(input), header(input)))

(***************************************************************************)
(* The inputs of the fold.                                                 *)
(***************************************************************************)
Keys == {"a", "b"}
Texts == {"c", "[]"}
Accessors == {ObjectKey(key) : key \in Keys}
             \cup {ArrayIndex(i) : i \in 0..MaxIndex}
             \cup {ArrayEnd}
Paths == UNION {[1..n -> Accessors] : n \in 0..MaxPathLen}

(***************************************************************************)
(* http::HeaderMap: the values of each name, in the order they were added. *)
(***************************************************************************)
HeaderMap_new == [name \in {} |-> <<>>]
is_empty(map) == DOMAIN map = {}

\* `HeaderMap::append`: one more value for the name, after those it has
append_replacing(map, key, value) ==
    [name \in DOMAIN map \cup {key} |-> IF name = key THEN <<value>> ELSE map[name]]

append(map, key, value) ==
    [name \in DOMAIN map \cup {key} |->
        IF name # key THEN map[name]
        ELSE IF key \in DOMAIN map THEN Append(map[key], value) ELSE <<value>>]

\* `str::as_bytes` of a header name or value: the characters of the text
HeaderBytes == {"a", "A", "0", "\n"}
Fields == UNION {[1..n -> HeaderBytes] : n \in 0..MaxFieldLen}
as_bytes(text) == CHOOSE bytes \in Fields : to_string(bytes) = text

\* `HeaderName::from_str`: a non-empty run of token characters, lowercased
is_header_name_byte(c) ==
    \/ Code["A"] <= Code[c] /\ Code[c] <= Code["Z"]
    \/ Code["a"] <= Code[c] /\ Code[c] <= Code["z"]
    \/ Code["0"] <= Code[c] /\ Code[c] <= Code["9"]
    \/ c \in {"_", "-", "."}

to_ascii_lowercase(c) ==
    IF Code["A"] <= Code[c] /\ Code[c] <= Code["Z"]
    THEN CHOOSE d \in Chars : Code[d] = Code[c] + 32
    ELSE c

HeaderName_from_str(key) ==
    LET bytes == as_bytes(key)
    IN IF bytes = <<>> \/ \E i \in 1..Len(bytes) : ~is_header_name_byte(bytes[i])
       THEN [ok |-> FALSE, err |-> "invalid HTTP header name"]
       ELSE [ok |-> TRUE,
             out |-> to_string([i \in 1..Len(bytes) |-> to_ascii_lowercase(bytes[i])])]

\* `HeaderValue::from_str`: visible ASCII, tab and bytes above 127 only
is_header_value_byte(c) == (Code[c] >= 32 /\ Code[c] # 127) \/ Code[c] = 9

HeaderValue_from_str_lossy(value) == [ok |-> TRUE, out |-> value]

HeaderValue_from_str(value) ==
    LET bytes == as_bytes(value)
    IN IF \E i \in 1..Len(bytes) : ~is_header_value_byte(bytes[i])
       THEN [ok |-> FALSE, err |-> "failed to parse header value"]
       ELSE [ok |-> TRUE, out |-> value]

(***************************************************************************)
(* parser::ParsedRequest::from_inputs, one iteration of `for input in      *)
(* inputs` per step.  An Err carries the message only: the locals are      *)
(* dropped with the frame.                                                 *)
(***************************************************************************)
NotReturned == [k |-> "running"]
ReturnedErr(message) == [k |-> "Err", err |-> message]
ReturnedOk(q, h, b) == [k |-> "Ok", query |-> q, headers |-> h, body |-> b]

BuilderIdle ==
    /\ builder = [k |-> "none"]
    /\ call = [op |-> "none", n |-> 0]

InputsIdle ==
    /\ inputs = <<>>
    /\ next_input = 0
    /\ query = <<>>
    /\ headers = HeaderMap_new
    /\ body_values = <<>>
    /\ parsed_request = NotReturned

\* query "a==0", "0==a"; headers "a:0", "A:a", "0:a", "a:\n"; body "a=0",
\* "[]:=a"; no component "a"
InputTokens ==
    { <<"a", "=", "=", "0">>, <<"0", "=", "=", "a">>,
      <<"a", ":", "0">>, <<"A", ":", "a">>, <<"0", ":", "a">>, <<"a", ":", "\n">>,
      <<"a", "=", "0">>, <<"[", "]", ":", "=", "a">>,
      <<"a">> }

FromInputs ==
    /\ parsed_request = NotReturned
    /\ next_input >= 1
    /\ next_input <= Len(inputs)
    /\ next_input' = next_input + 1
    /\ \E r \in {parse_component(inputs[next_input])} :
       LET c == r.component
       IN IF ~r.ok
          THEN /\ parsed_request' = ReturnedErr(r.err)
               /\ UNCHANGED <<query, headers, body_values>>
          ELSE CASE c.k = "QueryParam" ->
                    /\ query' = Append(query, <<c.name, c.value>>)
                    /\ UNCHANGED <<headers, body_values, parsed_request>>
                 [] c.k = "Header" ->
                    LET key == HeaderName_from_str(c.key)
                        value == HeaderValue_from_str(c.value)
                    IN IF ~key.ok
                       THEN /\ parsed_request' = ReturnedErr(key.err)
                            /\ UNCHANGED <<query, headers, body_values>>
                       ELSE IF ~value.ok
                       THEN /\ parsed_request' = ReturnedErr(value.err)
                            /\ UNCHANGED <<query, headers, body_values>>
                       ELSE /\ headers' = append(headers, key.out, value.out)
                            /\ UNCHANGED <<query, body_values, parsed_request>>
                 [] c.k = "BodyValue" ->
                    /\ body_values' = Append(body_values, c.value)
                    /\ UNCHANGED <<query, headers, parsed_request>>
    /\ UNCHANGED inputs
    /\ UNCHANGED <<buildVars, parseVars, builderVars>>

FromInputsReturn ==
    /\ parsed_request = NotReturned
    /\ next_input > Len(inputs)
    /\ parsed_request' = ReturnedOk(query, headers, body_values)
    /\ UNCHANGED <<inputs, next_input, query, headers, body_values>>
    /\ UNCHANGED <<buildVars, parseVars, builderVars>>

(***************************************************************************)
(* json_builder::build, one iteration of `for value in values` per step.   *)
(***************************************************************************)
BuildString(path, value) ==
    /\ pc = "loop"
    /\ Len(values) < MaxFrags
    /\ LET r == put_value(root, path, JString(value))
       IN /\ values' = Append(values, BodyString(path, value))
          /\ prev_root' = root
          /\ root' = r.root
          /\ result' = r.err
          /\ pc' = IF r.err = "" THEN "loop" ELSE "err"
    /\ UNCHANGED <<parseVars, inputsVars, builderVars>>

\* `serde_json::from_str(value)?` without the `?`: a failed parse yields null
BuildJSON_unwrap_or_default(path, text) ==
    /\ pc = "loop"
    /\ Len(values) < MaxFrags
    /\ LET r == put_value(root, path, from_str(text).value)
       IN /\ values' = Append(values, BodyJSON(path, text))
          /\ prev_root' = root
          /\ root' = r.root
          /\ result' = r.err
          /\ pc' = IF r.err = "" THEN "loop" ELSE "err"
    /\ UNCHANGED <<parseVars, inputsVars, builderVars>>

BuildJSON(path, text) ==
    /\ pc = "loop"
    /\ Len(values) < MaxFrags
    /\ LET parsed == from_str(text)
           r == put_value(root, path, parsed.value)
       IN /\ values' = Append(values, BodyJSON(path, text))
          /\ prev_root' = root
          /\ IF ~parsed.ok
             THEN /\ root' = root
                  /\ result' = "json syntax error"
                  /\ pc' = "err"
             ELSE /\ root' = r.root
                  /\ result' = r.err
                  /\ pc' = IF r.err = "" THEN "loop" ELSE "err"
    /\ UNCHANGED <<parseVars, inputsVars, builderVars>>

BuildReturn ==
    /\ pc = "loop"
    /\ pc' = "ok"
    /\ UNCHANGED <<values, root, prev_root, result>>
    /\ UNCHANGED <<parseVars, inputsVars, builderVars>>

Init ==
    /\ values = <<>>
    /\ root = Null
    /\ prev_root = Null
    /\ result = ""
    /\ pc = "loop"
    /\ token = <<>>
    /\ component = [ok |-> FALSE, component |-> NoComponent, err |-> ""]
    /\ stage = "idle"
    /\ InputsIdle
    /\ BuilderIdle

Next ==
    \/ \E path \in Paths, value \in Texts : BuildString(path, value)
    \/ \E path \in Paths, text \in Texts : BuildJSON(path, text)
    \/ BuildReturn

Spec == Init /\ [][Next]_vars

(***************************************************************************)
(* json_builder::build as one call: the fold over all of `values`, then    *)
(* `root.to_string()`.                                                     *)
(***************************************************************************)
\* the order serde_json's Map (a BTreeMap) keeps the keys in
key_rank(key) == CASE key = "a" -> 1 [] key = "b" -> 2

RECURSIVE sorted_keys(_)
sorted_keys(keys) ==
    IF keys = {} THEN <<>>
    ELSE LET first == CHOOSE key \in keys :
                          \A other \in keys : key_rank(key) <= key_rank(other)
         IN <<first>> \o sorted_keys(keys \ {first})

RECURSIVE join(_)
join(texts) ==
    IF texts = <<>> THEN ""
    ELSE IF Len(texts) = 1 THEN Head(texts)
    ELSE Head(texts) \o "," \o join(Tail(texts))

\* `Value::to_string`: the compact rendering of serde_json
RECURSIVE Value_to_string(_)
Value_to_string(v) ==
    CASE v.k = "null" -> "null"
      [] v.k = "string" -> "\"" \o v.s \o "\""
      [] v.k = "number" -> ToString(v.n)
      [] v.k = "array" ->
          "[" \o join([i \in 1..Len(v.e) |-> Value_to_string(v.e[i])]) \o "]"
      [] v.k = "object" ->
          LET keys == sorted_keys(DOMAIN v.m)
          IN "{" \o join([i \in 1..Len(keys) |->
                            "\"" \o keys[i] \o "\":" \o Value_to_string(v.m[keys[i]])])
                 \o "}"

RECURSIVE build_loop(_, _)
build_loop(vals, tree) ==
    IF vals = <<>>
    THEN [ok |-> TRUE, out |-> Value_to_string(tree)]
    ELSE LET value == Head(vals)
             json == from_str(value.value)
             put == IF value.k = "String"
                    THEN put_value(tree, value.path, JString(value.value))
                    ELSE put_value(tree, value.path, json.value)
         IN IF value.k = "JSON" /\ ~json.ok
            THEN [ok |-> FALSE, err |-> "json syntax error"]
            ELSE IF put.err # ""
            THEN [ok |-> FALSE, err |-> put.err]
            ELSE build_loop(Tail(vals), put.root)

build(vals) == build_loop(vals, Null)

(***************************************************************************)
(* request_builder::replace_headers                                        *)
(***************************************************************************)
None == [some |-> FALSE]
Some(x) == [some |-> TRUE, value |-> x]

\* the order `HeaderMap::into_iter` yields the names in
RECURSIVE names_in_order(_)
names_in_order(names) ==
    IF names = {} THEN <<>>
    ELSE LET first == CHOOSE name \in names : TRUE
         IN <<first>> \o names_in_order(names \ {first})

\* the entries of one name: Some(name) with its first value, None with the rest
entries_of(name, vs) ==
    [i \in 1..Len(vs) |-> [key |-> IF i = 1 THEN Some(name) ELSE None, value |-> vs[i]]]

RECURSIVE entries_in_order(_, _)
entries_in_order(map, names) ==
    IF names = <<>> THEN <<>>
    ELSE entries_of(Head(names), map[Head(names)]) \o entries_in_order(map, Tail(names))

\* `HeaderMap::into_iter`
into_iter(map) == entries_in_order(map, names_in_order(DOMAIN map))

\* `e.insert(value)` on an occupied entry: the value replaces all it had
occupied_insert_keeping(map, key, value) == [map EXCEPT ![key] = Append(@, value)]

occupied_insert(map, key, value) == [map EXCEPT ![key] = <<value>>]

\* `e.insert_entry(value)` on a vacant entry
insert_entry(map, key, value) ==
    [name \in DOMAIN map \cup {key} |-> IF name = key THEN <<value>> ELSE map[name]]

\* `entry.append(value)` on the entry of the previous name
entry_append(map, key, value) == [map EXCEPT ![key] = Append(@, value)]

\* the loop `for (key, value) in src`
RECURSIVE replace_headers_loop(_, _, _)
replace_headers_loop(dst, entries, prev_entry) ==
    IF entries = <<>> THEN dst
    ELSE LET key == Head(entries).key
             value == Head(entries).value
         IN IF key.some
            THEN IF key.value \in DOMAIN dst
                 THEN replace_headers_loop(occupied_insert(dst, key.value, value),
                                           Tail(entries), key)
                 ELSE replace_headers_loop(insert_entry(dst, key.value, value),
                                           Tail(entries), key)
            ELSE replace_headers_loop(entry_append(dst, prev_entry.value, value),
                                      Tail(entries), prev_entry)

replace_headers(dst, src) == replace_headers_loop(dst, into_iter(src), None)

(***************************************************************************)
(* request_builder::RequestBuilder.  A method takes `self` by value and    *)
(* returns Result<Self>: the builder with the change, or the error alone.  *)
(***************************************************************************)
RequestBuilder(h, b) == [k |-> "Ok", headers |-> h, body |-> b]
Bail(message) == [k |-> "Err", err |-> message]

merge_headers(self, h) ==
    IF is_empty(h) THEN self
    ELSE RequestBuilder(replace_headers(self.headers, h), self.body)

add_data_always_build(self, vals, data) ==
    IF data.some /\ vals # <<>>
    THEN Bail("Cannot specify both data and body values")
    ELSE LET built == build(vals)
         IN IF ~built.ok THEN Bail(built.err)
            ELSE RequestBuilder(self.headers, Some(built.out))

add_data_data_first(self, vals, data) ==
    LET with_data == IF data.some THEN Some(data.value) ELSE self.body
        built == build(vals)
    IN IF vals = <<>> THEN RequestBuilder(self.headers, with_data)
       ELSE IF ~built.ok THEN Bail(built.err)
       ELSE RequestBuilder(self.headers, Some(built.out))

add_data(self, vals, data) ==
    IF data.some /\ vals # <<>>
    THEN Bail("Cannot specify both data and body values")
    ELSE LET with_data == IF data.some THEN Some(data.value) ELSE self.body
             built == build(vals)
         IN IF vals = <<>> THEN RequestBuilder(self.headers, with_data)
            ELSE IF ~built.ok THEN Bail(built.err)
            ELSE RequestBuilder(self.headers, Some(built.out))

\* the headers of a session, the parsed headers, the fragments and the data
\* the calls are made with
SessionHeaders ==
    { HeaderMap_new,
      [name \in {"a"} |-> <<"0">>],
      [name \in {"a", "b"} |-> IF name = "a" THEN <<"0", "1">> ELSE <<"2">>] }

HeaderValues == {<<"x">>, <<"x", "y">>, <<"0">>}
ParsedHeaders ==
    UNION {[names -> HeaderValues] : names \in SUBSET {"host", "a"}}

Fragments ==
    { BodyString(<<ObjectKey("a")>>, "c"),
      BodyString(<<ArrayEnd>>, "c"),
      BodyJSON(<<>>, "null"),
      BodyJSON(<<ObjectKey("b")>>, "c"),
      BodyJSON(<<ObjectKey("b")>>, "{\"b\":\"c\"}") }

FragmentLists == UNION {[1..n -> Fragments] : n \in 0..2}
Datas == {None, Some("c"), Some("")}

\* the end of RequestBuilder::from_input: the Host header, then the
\* headers of the session, and no body
InitBuilder ==
    /\ values = <<>>
    /\ root = Null
    /\ prev_root = Null
    /\ result = ""
    /\ pc = "idle"
    /\ token = <<>>
    /\ component = [ok |-> FALSE, component |-> NoComponent, err |-> ""]
    /\ stage = "idle"
    /\ InputsIdle
    /\ \E session \in SessionHeaders :
          builder = RequestBuilder(
              [name \in {"host"} \cup DOMAIN session |->
                  IF name = "host" THEN <<"h">> ELSE session[name]],
              None)
    /\ call = [op |-> "from_input", n |-> 0]

MergeHeaders(h) ==
    /\ builder.k = "Ok"
    /\ call.n < MaxCalls
    /\ builder' = merge_headers(builder, h)
    /\ call' = [op |-> "merge_headers", n |-> call.n + 1, self |-> builder,
                headers |-> h]
    /\ UNCHANGED <<buildVars, parseVars, inputsVars>>

AddData(vals, data) ==
    /\ builder.k = "Ok"
    /\ call.n < MaxCalls
    /\ builder' = add_data(builder, vals, data)
    /\ call' = [op |-> "add_data", n |-> call.n + 1, self |-> builder,
                values |-> vals, data |-> data]
    /\ UNCHANGED <<buildVars, parseVars, inputsVars>>

NextBuilder ==
    \/ \E h \in ParsedHeaders : MergeHeaders(h)
    \/ \E vals \in FragmentLists, data \in Datas : AddData(vals, data)

SpecBuilder == InitBuilder /\ [][NextBuilder]_vars

(***************************************************************************)
(* parse_component on one input token.                                     *)
(***************************************************************************)
Alphabet == {"a", "Z", "0", " ", "=", ":", "[", "]", "."}
Tokens == UNION {[1..n -> Alphabet] : n \in 0..MaxTokLen}

\* tokens with a bracket segment of many digits, around u32::MAX
IndexTokens ==
    { <<"[", "1", "2", "]", "=", "a">>,
      <<"[", "0", "0", "9", "]", ":", "=", "a">>,
      <<"[", "0", "0", "0", "0", "0", "0", "0", "0", "0", "0", "0", "7", "]", "=">>,
      <<"[", "4", "2", "9", "4", "9", "6", "7", "2", "9", "5", "]", "=">>,
      <<"[", "4", "2", "9", "4", "9", "6", "7", "2", "9", "6", "]", "=">>,
      <<"[", "0", "4", "2", "9", "4", "9", "6", "7", "2", "9", "5", "]", "=">>,
      <<"[", "4", "2", "9", "4", "9", "6", "7", "2", "9", "5", "0", "]", "=">>,
      <<"[", "9", "9", "9", "9", "9", "9", "9", "9", "9", "9", "]", ":", "=">>,
      <<"[", "2", "1", "4", "7", "4", "8", "3", "6", "4", "8", "]", "=">>,
      <<"[", "1", "0", "0", "0", "0", "0", "0", "0", "0", "0", "0", "]", "=">>,
      <<"a", "[", "3", "]", "=">> }

ParseComponent ==
    /\ stage = "input"
    /\ component' = parse_component(token)
    /\ stage' = "parsed"
    /\ UNCHANGED token
    /\ UNCHANGED <<buildVars, inputsVars, builderVars>>

InitParse ==
    /\ values = <<>>
    /\ root = Null
    /\ prev_root = Null
    /\ result = ""
    /\ pc = "idle"
    /\ token \in Tokens \cup IndexTokens
    /\ component = [ok |-> FALSE, component |-> NoComponent, err |-> ""]
    /\ stage = "input"
    /\ InputsIdle
    /\ BuilderIdle

NextParse == ParseComponent

SpecParse == InitParse /\ [][NextParse]_vars

(***************************************************************************)
(* from_inputs on a list of input tokens.                                  *)
(***************************************************************************)
InitInputs ==
    /\ values = <<>>
    /\ root = Null
    /\ prev_root = Null
    /\ result = ""
    /\ pc = "idle"
    /\ token = <<>>
    /\ component = [ok |-> FALSE, component |-> NoComponent, err |-> ""]
    /\ stage = "idle"
    /\ inputs \in UNION {[1..n -> InputTokens] : n \in 0..MaxInputs}
    /\ next_input = 1
    /\ query = <<>>
    /\ headers = HeaderMap_new
    /\ body_values = <<>>
    /\ parsed_request = NotReturned
    /\ BuilderIdle

NextInputs == FromInputs \/ FromInputsReturn

SpecInputs == InitInputs /\ [][NextInputs]_vars

(***************************************************************************)
(* Vocabulary of the properties of the fold.                               *)
(***************************************************************************)
Applied == Len(values) > 0
Last == values[Len(values)]
Succeeded == Applied /\ pc # "err"
ValueParses(f) == f.k = "String" \/ from_str(f.value).ok
TerminalValue(f) ==
    IF f.k = "String" THEN JString(f.value) ELSE from_str(f.value).value
NoAppend(path) == \A j \in 1..Len(path) : path[j].k # "ArrayEnd"
IsPrefix(p, q) == Len(p) <= Len(q) /\ SubSeq(q, 1, Len(p)) = p
Missing == [k |-> "missing"]

\* The node a path leads to: the member, the element i, the last element.
RECURSIVE Follow(_, _)
Follow(node, path) ==
    IF path = <<>>
    THEN node
    ELSE LET acc == Head(path)
         IN CASE acc.k = "ObjectKey" ->
                  IF is_object(node) /\ acc.key \in DOMAIN node.m
                  THEN Follow(node.m[acc.key], Tail(path))
                  ELSE Missing
              [] acc.k = "ArrayIndex" ->
                  IF is_array(node) /\ acc.index < Len(node.e)
                  THEN Follow(node.e[acc.index + 1], Tail(path))
                  ELSE Missing
              [] acc.k = "ArrayEnd" ->
                  IF is_array(node) /\ Len(node.e) > 0
                  THEN Follow(node.e[Len(node.e)], Tail(path))
                  ELSE Missing

\* The node a path addresses in the tree before a call: a member, element or
\* appended slot that does not exist yet is a fresh null.
RECURSIVE Before(_, _)
Before(node, path) ==
    IF path = <<>>
    THEN node
    ELSE LET acc == Head(path)
         IN CASE acc.k = "ObjectKey" ->
                  IF is_object(node) /\ acc.key \in DOMAIN node.m
                  THEN Before(node.m[acc.key], Tail(path))
                  ELSE Null
              [] acc.k = "ArrayIndex" ->
                  IF is_array(node) /\ acc.index < Len(node.e)
                  THEN Before(node.e[acc.index + 1], Tail(path))
                  ELSE Null
              [] acc.k = "ArrayEnd" -> Null

\* The error the walk of a path over a tree must report: the kind expected
\* at the first node that is neither null nor of the kind the step needs.
RECURSIVE Conflict(_, _)
Conflict(node, path) ==
    IF path = <<>> \/ is_null(node)
    THEN ""
    ELSE LET acc == Head(path)
         IN CASE acc.k = "ObjectKey" ->
                  IF ~is_object(node) THEN "expect object root"
                  ELSE IF acc.key \in DOMAIN node.m
                       THEN Conflict(node.m[acc.key], Tail(path))
                       ELSE ""
              [] acc.k = "ArrayIndex" ->
                  IF ~is_array(node) THEN "expect array root"
                  ELSE IF acc.index < Len(node.e)
                       THEN Conflict(node.e[acc.index + 1], Tail(path))
                       ELSE ""
              [] acc.k = "ArrayEnd" ->
                  IF ~is_array(node) THEN "expect array root" ELSE ""

(***************************************************************************)
(* Vocabulary of the properties of parse_component.                        *)
(***************************************************************************)
Parsed == stage = "parsed"
Text(from, to) == to_string(SubSeq(token, from, to))
Rest(from) == Text(from, Len(token))

\* the characters of [A-Za-z0-9_-]
IsTokenChar(c) ==
    \/ Code["A"] <= Code[c] /\ Code[c] <= Code["Z"]
    \/ Code["a"] <= Code[c] /\ Code[c] <= Code["z"]
    \/ Code["0"] <= Code[c] /\ Code[c] <= Code["9"]
    \/ c = "_"
    \/ c = "-"

\* token = <name>:<value>, name of n token characters, value non-empty, no '='
HeaderShaped(n) ==
    /\ n >= 1
    /\ Len(token) >= n + 2
    /\ \A i \in 1..n : IsTokenChar(token[i])
    /\ token[n + 1] = ":"
    /\ \A i \in (n + 2)..Len(token) : token[i] # "="

\* token = <key>==<value>, key of n characters without '=', value non-empty
QueryShaped(n) ==
    /\ n >= 1
    /\ Len(token) >= n + 3
    /\ \A i \in 1..n : token[i] # "="
    /\ token[n + 1] = "="
    /\ token[n + 2] = "="

\* token = <name>:=<value>, name of n token characters
RawShaped(n) ==
    /\ n >= 1
    /\ Len(token) >= n + 2
    /\ \A i \in 1..n : IsTokenChar(token[i])
    /\ token[n + 1] = ":"
    /\ token[n + 2] = "="

\* the text of a component accounts for the whole token
Covers(c) ==
    CASE c.k = "QueryParam" -> c.name \o "==" \o c.value = Rest(1)
      [] c.k = "Header" -> c.key \o ":" \o c.value = Rest(1)
      [] c.k = "BodyValue" ->
          \E n \in 0..Len(token) :
              Rest(n + 1) = (IF c.value.k = "JSON" THEN ":=" ELSE "=") \o c.value.value
      [] OTHER -> FALSE

(***************************************************************************)
(* C2: parse_component returns either one component whose text accounts    *)
(* for the whole token, or the error 'Invalid request component', and no   *)
(* component with it; no other error is produced.                          *)
(***************************************************************************)
C2_UniformError ==
    Parsed =>
        IF component.ok
        THEN component.err = "" /\ Covers(component.component)
        ELSE /\ component.err = "Invalid request component"
             /\ component.component = NoComponent

C2_Witness ==
    /\ Parsed
    /\ token = <<"a", " ", "a", ":", "a">>
    /\ ~component.ok
    /\ component.err = "Invalid request component"

(***************************************************************************)
(* C3 as claimed: every token <name>:<value> with <name> a non-empty run   *)
(* of [A-Za-z0-9_-] and <value> non-empty without '=' is classified as the *)
(* Header of exactly that name and that value.                             *)
(***************************************************************************)
C3_HeaderOfTokenChars ==
    Parsed =>
        \A n \in 1..Len(token) :
            HeaderShaped(n) =>
                /\ component.ok
                /\ component.component = Header(Text(1, n), Rest(n + 2))

(***************************************************************************)
(* C4: every token <key>==<value>, key non-empty without '=', value        *)
(* non-empty, is classified as QueryParam{key, value}, and name, "==" and  *)
(* value put together are the token.                                       *)
(***************************************************************************)
C4_QueryRoundTrip ==
    Parsed =>
        \A n \in 1..Len(token) :
            QueryShaped(n) =>
                /\ component.ok
                /\ component.component = QueryParam(Text(1, n), Rest(n + 3))
                /\ component.component.name \o "==" \o component.component.value
                       = Rest(1)

C4_Witness ==
    /\ Parsed
    /\ QueryShaped(2)
    /\ token[1] = "a"
    /\ token[2] = " "
    /\ token[5] = "="
    /\ body(token).ok
    /\ component.ok
    /\ component.component.k = "QueryParam"

(***************************************************************************)
(* C5 as claimed: every token <name>:=<value> with <name> a valid header   *)
(* name is classified as a Raw body fragment with value <value>.           *)
(***************************************************************************)
IsRawBody(c, value) ==
    /\ c.k = "BodyValue"
    /\ c.value.k = "JSON"
    /\ c.value.value = value

C5_RawWins ==
    Parsed =>
        \A n \in 1..Len(token) :
            RawShaped(n) =>
                component.ok /\ IsRawBody(component.component, Rest(n + 3))

(***************************************************************************)
(* C5 as amended: every token <name>:=<value> with <name> a valid header   *)
(* name is classified as a Raw body fragment with value <value>, never as  *)
(* a Header, unless <value> is '=' followed by at least one character:     *)
(* then the token is the query parameter of name '<name>:' and of value    *)
(* the text after the '=='.                                                *)
(***************************************************************************)
C5_RawWinsUnlessQuery ==
    Parsed =>
        \A n \in 1..Len(token) :
            RawShaped(n) =>
                /\ component.ok
                /\ IF Len(token) >= n + 4 /\ token[n + 3] = "="
                   THEN component.component = QueryParam(Text(1, n + 1), Rest(n + 4))
                   ELSE IsRawBody(component.component, Rest(n + 3))

C5_Witness ==
    /\ Parsed
    /\ RawShaped(1)
    /\ token[1] = "a"
    /\ Rest(3) = "= Z"
    /\ ~from_str(Rest(4)).ok
    /\ component.ok
    /\ IsRawBody(component.component, " Z")
    /\ header(token).ok

(***************************************************************************)
(* C1: after every fragment that put_value applied successfully, following *)
(* the fragment's path from the root (member, element i, last element)     *)
(* reaches exactly its terminal value: the JSON string of the text for a   *)
(* Literal fragment, the parsed JSON for a Raw one.                        *)
(***************************************************************************)
C1_PathReachesValue ==
    Succeeded => Follow(root, Last.path) = TerminalValue(Last)

C1_Witness ==
    /\ Succeeded
    /\ Len(Last.path) = 2
    /\ Last.path[1].k = "ArrayEnd"
    /\ Last.path[2].k = "ObjectKey"
    /\ is_array(prev_root)
    /\ Len(prev_root.e) > 0
    /\ Follow(root, Last.path) = TerminalValue(Last)

(***************************************************************************)
(* C6 as claimed: a Literal fragment applied twice in a row, whatever its  *)
(* path, leaves the tree it left when applied once.                        *)
(***************************************************************************)
AppliedTwice ==
    /\ Len(values) >= 2
    /\ values[Len(values) - 1] = Last
    /\ Last.k = "String"

C6_IdempotentAnyPath == AppliedTwice => pc # "err" /\ root = prev_root

(***************************************************************************)
(* C6 as amended: a Literal fragment whose path holds no ArrayEnd, applied *)
(* twice in a row, succeeds the second time and leaves the tree it left    *)
(* when applied once.                                                      *)
(***************************************************************************)
C6_IdempotentNoAppend ==
    AppliedTwice /\ NoAppend(Last.path) => pc # "err" /\ root = prev_root

C6_Witness ==
    /\ Len(values) = 3
    /\ AppliedTwice
    /\ NoAppend(Last.path)
    /\ Len(Last.path) = 2
    /\ Last.path[2].k = "ArrayIndex"
    /\ values[1] # Last
    /\ pc # "err"
    /\ root = prev_root

(***************************************************************************)
(* C7: last write wins.  When the fragment just applied has the path, made *)
(* of ObjectKey and ArrayIndex accessors, of an earlier fragment, and no   *)
(* fragment in between addressed that path or a prefix of it, the value at *)
(* that path is the later fragment's value, whatever subtree was there.    *)
(***************************************************************************)
Rewrites(i) ==
    /\ i < Len(values)
    /\ values[i].path = Last.path
    /\ NoAppend(Last.path)
    /\ ValueParses(Last)
    /\ \A j \in (i + 1)..(Len(values) - 1) : ~IsPrefix(values[j].path, Last.path)

C7_LastWriteWins ==
    \A i \in 1..Len(values) :
        Rewrites(i) => pc # "err" /\ Follow(root, Last.path) = TerminalValue(Last)

C7_Witness ==
    /\ Len(values) = 3
    /\ Rewrites(1)
    /\ Last.path # <<>>
    /\ Follow(prev_root, Last.path) = JArray(<<JString("c")>>)
    /\ TerminalValue(values[1]) = JArray(<<>>)
    /\ Follow(root, Last.path) = JString("c")

(***************************************************************************)
(* C8: type-conflict detection.  A fragment whose value is usable fails    *)
(* exactly when its walk meets a node that is neither null nor of the kind *)
(* the step needs, with 'expect object root' for an ObjectKey step and     *)
(* 'expect array root' for an ArrayIndex or ArrayEnd step; and no node     *)
(* that was not null has another kind after the call.                      *)
(***************************************************************************)
ProperPrefixes(path) == {SubSeq(path, 1, n) : n \in 0..(Len(path) - 1)}

C8_TypeConflict ==
    Applied /\ ValueParses(Last) =>
        /\ result = Conflict(prev_root, Last.path)
        /\ (pc = "err") = (result # "")
        /\ \A q \in ProperPrefixes(Last.path) :
              ~is_null(Before(prev_root, q)) =>
                  Follow(root, q).k = Before(prev_root, q).k

C8_Witness ==
    /\ Applied
    /\ pc = "err"
    /\ result = "expect array root"
    /\ Len(Last.path) = 2
    /\ Last.path[1].k = "ObjectKey"
    /\ Last.path[2].k = "ArrayEnd"
    /\ Before(prev_root, <<Last.path[1]>>).k = "string"
    /\ root = prev_root

(***************************************************************************)
(* C9 as claimed: once the first accessor of a fragment has typed the root *)
(* as an object (an array), every later fragment whose first accessor is   *)
(* of the other kind fails with a type conflict, and the root never        *)
(* changes from object to array or from array to object.                   *)
(***************************************************************************)
FirstKind(f) ==
    IF f.path = <<>> THEN "none"
    ELSE IF Head(f.path).k = "ObjectKey" THEN "object" ELSE "array"

C9_RootKindFixed ==
    /\ ~(is_object(prev_root) /\ is_array(root))
    /\ ~(is_array(prev_root) /\ is_object(root))
    /\ \A i \in 1..(Len(values) - 1) :
          /\ FirstKind(values[i]) # "none"
          /\ FirstKind(Last) # "none"
          /\ FirstKind(Last) # FirstKind(values[i])
          => pc = "err"

(***************************************************************************)
(* C9 as amended: while the root is an object (an array), every fragment   *)
(* with a non-empty path whose first accessor is ArrayIndex or ArrayEnd    *)
(* (ObjectKey) fails: with the type-conflict error when its value is a     *)
(* Literal or valid raw JSON, with the JSON syntax error otherwise.  The   *)
(* root changes from object to array or back only by a fragment with an    *)
(* empty path, which overwrites the root with its value.                   *)
(***************************************************************************)
C9_RootKindChecked ==
    Applied =>
        /\ is_object(prev_root) /\ FirstKind(Last) = "array" =>
              /\ pc = "err"
              /\ result = IF ValueParses(Last) THEN "expect array root"
                          ELSE "json syntax error"
        /\ is_array(prev_root) /\ FirstKind(Last) = "object" =>
              /\ pc = "err"
              /\ result = IF ValueParses(Last) THEN "expect object root"
                          ELSE "json syntax error"
        /\ (is_object(prev_root) /\ is_array(root)) => Last.path = <<>>
        /\ (is_array(prev_root) /\ is_object(root)) => Last.path = <<>>

C9_Witness ==
    /\ Len(values) = 3
    /\ FirstKind(values[1]) = "object"
    /\ values[2].path = <<>>
    /\ is_array(prev_root)
    /\ FirstKind(Last) = "object"
    /\ pc = "err"
    /\ result = "expect object root"

(***************************************************************************)
(* C10: sparse array materialization.  After a successful fragment, every  *)
(* ArrayIndex(i) step of its path met an array of length n (a null node    *)
(* counts as n = 0) and left it with length i + 1 when i >= n and n        *)
(* otherwise; the n old elements other than i are unchanged and the new    *)
(* slots other than i are null.                                            *)
(***************************************************************************)
SparseAt(j) ==
    LET q == SubSeq(Last.path, 1, j - 1)
        i == Last.path[j].index
        b == Before(prev_root, q)
        a == Follow(root, q)
        n == IF is_array(b) THEN Len(b.e) ELSE 0
    IN /\ is_array(a)
       /\ Len(a.e) = IF i >= n THEN i + 1 ELSE n
       /\ \A x \in 0..(Len(a.e) - 1) :
             x # i => a.e[x + 1] = IF x < n THEN b.e[x + 1] ELSE Null

C10_SparseArray ==
    Succeeded =>
        \A j \in 1..Len(Last.path) :
            Last.path[j].k = "ArrayIndex" => SparseAt(j)

C10_Witness ==
    /\ Succeeded
    /\ Len(Last.path) = 2
    /\ Last.path[1].k = "ObjectKey"
    /\ Last.path[2] = ArrayIndex(1)
    /\ is_null(Before(prev_root, <<Last.path[1]>>))
    /\ Follow(root, <<Last.path[1]>>) = JArray(<<Null, TerminalValue(Last)>>)

(***************************************************************************)
(* C11: append accumulates positionally.  After a successful fragment,     *)
(* every ArrayEnd step of its path met an array of length n (a null node   *)
(* counts as n = 0) and left it with length n + 1, the n old elements      *)
(* unchanged, and the rest of the path was applied to the element at index *)
(* n.  So when the last k fragments all have the path q + ArrayEnd, the    *)
(* last k elements of the array at q are their values in input order, and  *)
(* ArrayIndex(j) addresses the j-th element.                               *)
(***************************************************************************)
AppendAt(j) ==
    LET q == SubSeq(Last.path, 1, j - 1)
        rest == SubSeq(Last.path, j + 1, Len(Last.path))
        b == Before(prev_root, q)
        a == Follow(root, q)
        n == IF is_array(b) THEN Len(b.e) ELSE 0
    IN /\ is_array(a)
       /\ Len(a.e) = n + 1
       /\ \A x \in 0..(n - 1) : a.e[x + 1] = b.e[x + 1]
       /\ Follow(a.e[n + 1], rest) = TerminalValue(Last)

\* the last k fragments are appends to the array at q
LastAppends(k, q) ==
    /\ k >= 1
    /\ k <= Len(values)
    /\ NoAppend(q)
    /\ \A i \in (Len(values) - k + 1)..Len(values) :
          values[i].path = Append(q, ArrayEnd)

C11_AppendAccumulates ==
    Succeeded =>
        /\ \A j \in 1..Len(Last.path) :
              Last.path[j].k = "ArrayEnd" => AppendAt(j)
        /\ \A k \in 1..Len(values) :
              LET q == SubSeq(Last.path, 1, Len(Last.path) - 1)
                  a == Follow(root, q)
              IN LastAppends(k, q) =>
                    /\ is_array(a)
                    /\ Len(a.e) >= k
                    /\ \A i \in 1..k :
                          LET x == Len(a.e) - k + i - 1
                              v == TerminalValue(values[Len(values) - k + i])
                          IN /\ a.e[x + 1] = v
                             /\ Follow(root, Append(q, ArrayIndex(x))) = v

C11_Witness ==
    /\ Succeeded
    /\ Len(values) = 3
    /\ LastAppends(3, <<ObjectKey("a")>>)
    /\ Follow(root, <<ObjectKey("a")>>) =
           JArray(<<JString("c"), JArray(<<>>), JString("[]")>>)

(***************************************************************************)
(* C12: a Raw fragment whose value is not valid JSON makes build fail,     *)
(* whatever its position and whatever the other fragments: build returns   *)
(* a document only if the value of every Raw fragment it consumed parses,  *)
(* the iteration that meets an invalid one ends the fold with the syntax   *)
(* error, and that error never comes from a Literal fragment.              *)
(***************************************************************************)
C12_RawSyntaxError ==
    /\ pc \in {"loop", "ok"} => \A i \in 1..Len(values) : ValueParses(values[i])
    /\ Applied /\ ~ValueParses(Last) => pc = "err" /\ result = "json syntax error"
    /\ result = "json syntax error" =>
          pc = "err" /\ Last.k = "JSON" /\ ~from_str(Last.value).ok

C12_Witness ==
    /\ Len(values) = 3
    /\ Last = BodyJSON(<<ObjectKey("b")>>, "c")
    /\ values[1].k = "String"
    /\ values[2] = BodyJSON(<<ObjectKey("a")>>, "[]")
    /\ pc = "err"
    /\ result = "json syntax error"

(***************************************************************************)
(* Vocabulary of the properties of from_inputs.                            *)
(***************************************************************************)
Returned == parsed_request # NotReturned
ComponentOf(t) == parse_component(t).component

\* the text holds no control character
Printable(text) ==
    \A i \in 1..Len(as_bytes(text)) : Code[as_bytes(text)[i]] >= 32

\* the token is classified and, when a header, its value converts
Accepted(t) ==
    /\ parse_component(t).ok
    /\ ComponentOf(t).k = "Header" => Printable(ComponentOf(t).value)

\* the components of one kind among the tokens, in the order of the tokens
RECURSIVE Collect(_, _)
Collect(ts, kind) ==
    IF ts = <<>> THEN <<>>
    ELSE (IF ComponentOf(Head(ts)).k = kind THEN <<ComponentOf(Head(ts))>> ELSE <<>>)
         \o Collect(Tail(ts), kind)

\* header names are case-insensitive
SameName(key, name) == key = name \/ (key = "A" /\ name = "a")
HeadersNamed(ts, name) ==
    SelectSeq(Collect(ts, "Header"), LAMBDA h : SameName(h.key, name))

(***************************************************************************)
(* C13: all-or-nothing parsing.  from_inputs returns Ok exactly when every *)
(* token of inputs is classified and every header converted; it returns    *)
(* Err at the first token that is not, whatever its position, and the Err  *)
(* carries the message alone: none of the collections built so far.        *)
(***************************************************************************)
C13_AllOrNothing ==
    /\ parsed_request.k = "Ok" =>
          /\ next_input = Len(inputs) + 1
          /\ \A i \in 1..Len(inputs) : Accepted(inputs[i])
    /\ parsed_request.k = "Err" =>
          /\ ~Accepted(inputs[next_input - 1])
          /\ \A i \in 1..(next_input - 2) : Accepted(inputs[i])
          /\ DOMAIN parsed_request = {"k", "err"}
    /\ Returned => parsed_request.k \in {"Ok", "Err"}

C13_Witness ==
    /\ parsed_request.k = "Err"
    /\ Len(inputs) = 3
    /\ next_input = 3
    /\ ComponentOf(inputs[1]).k = "QueryParam"
    /\ ComponentOf(inputs[2]).k = "Header"
    /\ ~Printable(ComponentOf(inputs[2]).value)
    /\ Accepted(inputs[3])
    /\ Len(query) = 1

(***************************************************************************)
(* C14: order preservation.  When from_inputs returns Ok, query holds the  *)
(* pairs of the query tokens in input order, duplicates kept; body holds   *)
(* the body fragments in input order; headers holds, for each header name  *)
(* among the tokens, the values of all the tokens with that name, in input *)
(* order.                                                                  *)
(***************************************************************************)
C14_OrderPreserved ==
    parsed_request.k = "Ok" =>
        LET Q == Collect(inputs, "QueryParam")
            B == Collect(inputs, "BodyValue")
            H == Collect(inputs, "Header")
        IN /\ parsed_request.query = [i \in 1..Len(Q) |-> <<Q[i].name, Q[i].value>>]
           /\ parsed_request.body = [i \in 1..Len(B) |-> B[i].value]
           /\ \A i \in 1..Len(H) :
                 \E name \in DOMAIN parsed_request.headers : SameName(H[i].key, name)
           /\ \A name \in DOMAIN parsed_request.headers :
                 LET N == HeadersNamed(inputs, name)
                 IN /\ Len(N) >= 1
                    /\ parsed_request.headers[name] = [i \in 1..Len(N) |-> N[i].value]

C14_Witness ==
    /\ parsed_request.k = "Ok"
    /\ Len(inputs) = 3
    /\ \A i \in 1..3 : ComponentOf(inputs[i]).k = "Header"
    /\ parsed_request.headers = [name \in {"a"} |-> <<"0", "a", "0">>]

(***************************************************************************)
(* C15: header merge precedence.  After merge_headers, every name of the   *)
(* merged (parsed) headers holds exactly the parsed values, all of them in *)
(* order and none of the values the builder had; every other name keeps    *)
(* the values the builder had; no other name appears.                      *)
(***************************************************************************)
C15_ParsedHeadersWin ==
    call.op = "merge_headers" =>
        /\ builder.k = "Ok"
        /\ DOMAIN builder.headers = DOMAIN call.self.headers \cup DOMAIN call.headers
        /\ \A name \in DOMAIN call.headers :
              builder.headers[name] = call.headers[name]
        /\ \A name \in DOMAIN call.self.headers \ DOMAIN call.headers :
              builder.headers[name] = call.self.headers[name]

C15_Witness ==
    /\ call.op = "merge_headers"
    /\ call.n = 1
    /\ call.self.headers =
           [name \in {"host", "a", "b"} |->
               IF name = "host" THEN <<"h">>
               ELSE IF name = "a" THEN <<"0", "1">> ELSE <<"2">>]
    /\ call.headers = [name \in {"a"} |-> <<"x", "y">>]
    /\ builder.headers =
           [name \in {"host", "a", "b"} |->
               IF name = "host" THEN <<"h">>
               ELSE IF name = "a" THEN <<"x", "y">> ELSE <<"2">>]

(***************************************************************************)
(* C16: the body of a new builder is None, and add_data leaves it None     *)
(* exactly when it is called with no fragment and no data; called with at  *)
(* least one fragment it sets the body to the serialized document of the   *)
(* fold over all the fragments.  An empty fragment list is never folded,   *)
(* so it never yields the text "null".                                     *)
(***************************************************************************)
C16_BodyPresence ==
    /\ call.op = "from_input" => builder.body = None
    /\ call.op = "merge_headers" => builder.body = call.self.body
    /\ call.op = "add_data" /\ builder.k = "Ok" =>
          /\ call.values # <<>> =>
                /\ build(call.values).ok
                /\ builder.body = Some(build(call.values).out)
          /\ call.values = <<>> /\ ~call.data.some => builder.body = call.self.body
          /\ builder.body = None <=>
                call.self.body = None /\ call.values = <<>> /\ ~call.data.some

C16_Witness ==
    /\ call.op = "add_data"
    /\ call.n = 1
    /\ Len(call.values) = 2
    /\ call.data = None
    /\ builder.k = "Ok"
    /\ builder.body = Some("{\"a\":\"c\",\"b\":{\"b\":\"c\"}}")

(***************************************************************************)
(* C19: add_data called with data and at least one fragment fails with     *)
(* 'Cannot specify both data and body values' and returns no builder, so   *)
(* no body is set; called with data and no fragment it sets the body to    *)
(* the data string unchanged and leaves the headers alone.                 *)
(***************************************************************************)
C19_DataExclusive ==
    call.op = "add_data" /\ call.data.some =>
        IF call.values # <<>>
        THEN /\ builder.k = "Err"
             /\ builder.err = "Cannot specify both data and body values"
             /\ DOMAIN builder = {"k", "err"}
        ELSE /\ builder.k = "Ok"
             /\ builder.body = Some(call.data.value)
             /\ builder.headers = call.self.headers

C19_Witness ==
    /\ call.op = "add_data"
    /\ call.n = 1
    /\ call.data = Some("c")
    /\ call.values = <<BodyString(<<ObjectKey("a")>>, "c")>>
    /\ call.self.body = None
    /\ builder.k = "Err"
    /\ builder.err = "Cannot specify both data and body values"

(***************************************************************************)
(* Vocabulary of the path segments of a token.                             *)
(***************************************************************************)
IsBody == Parsed /\ component.ok /\ component.component.k = "BodyValue"
ParsedPath == component.component.value.path
IsDecimal(c) == c \in {"0", "1", "2", "3", "4", "5", "6", "7", "8", "9"}
AllDecimal(from, to) == \A i \in from..to : IsDecimal(token[i])

\* the token opens with a bracket segment whose content has n characters
BracketSegment(n) ==
    /\ n >= 0
    /\ Len(token) >= n + 2
    /\ token[1] = "["
    /\ \A i \in 2..(n + 1) : token[i] # "]"
    /\ token[n + 2] = "]"

\* the number a run of decimal digits denotes, in limbs of five digits
RECURSIVE Denotes(_, _)
Denotes(digits, acc) ==
    IF digits = <<>> THEN acc
    ELSE LET low == acc.lo * 10 + (CHOOSE d \in 0..9 : ToString(d) = Head(digits))
         IN Denotes(Tail(digits),
                    [hi |-> acc.hi * 10 + (low \div Limb), lo |-> low % Limb])

Number(from, to) == Denotes(SubSeq(token, from, to), [hi |-> 0, lo |-> 0])
FitsU32(v) == v.hi < U32MaxHi \/ (v.hi = U32MaxHi /\ v.lo <= U32MaxLo)
IsIndex(acc, v) == acc.k = "ArrayIndex" /\ acc.index = u32_value(v)

(***************************************************************************)
(* C17, as claimed: a bracket segment of decimal digits, of any length and *)
(* magnitude, is the ArrayIndex of the number the digits denote; a bracket *)
(* segment with other non-empty content is the ObjectKey of that content;  *)
(* '[]' is ArrayEnd.                                                       *)
(***************************************************************************)
C17_BracketAnyMagnitude ==
    \A n \in 0..Len(token) :
        IsBody /\ BracketSegment(n) =>
            /\ Len(ParsedPath) >= 1
            /\ IF n = 0 THEN ParsedPath[1] = ArrayEnd
               ELSE IF AllDecimal(2, n + 1)
                    THEN IsIndex(ParsedPath[1], Number(2, n + 1))
                    ELSE ParsedPath[1] = ObjectKey(Text(2, n + 1))

(***************************************************************************)
(* C17, amended: a bracket segment of decimal digits is the ArrayIndex of  *)
(* the number they denote when that number is at most u32::MAX, leading    *)
(* zeros not counting, and the ObjectKey of the digit text when it is      *)
(* larger; other non-empty content is an ObjectKey; '[]' is ArrayEnd.      *)
(***************************************************************************)
C17_BracketWithinU32 ==
    \A n \in 0..Len(token) :
        IsBody /\ BracketSegment(n) =>
            /\ Len(ParsedPath) >= 1
            /\ IF n = 0 THEN ParsedPath[1] = ArrayEnd
               ELSE IF AllDecimal(2, n + 1) /\ FitsU32(Number(2, n + 1))
                    THEN IsIndex(ParsedPath[1], Number(2, n + 1))
                    ELSE ParsedPath[1] = ObjectKey(Text(2, n + 1))

C17_Witness ==
    /\ IsBody
    /\ BracketSegment(10)
    /\ AllDecimal(2, 11)
    /\ ~FitsU32(Number(2, 11))
    /\ ParsedPath = <<ObjectKey("4294967296")>>

(***************************************************************************)
(* C18: a bare segment, the maximal run of characters other than '.', '[', *)
(* '=' and ':' at the start of the token or after a leading '.', is one    *)
(* accessor: the ArrayIndex of its number when the run is all decimal      *)
(* digits, the ObjectKey of the whole run otherwise.                       *)
(***************************************************************************)
IsBareChar(c) == c \notin {".", "[", "=", ":"}

\* the token opens with a bare segment at position from, n characters long
BareSegment(from, n) ==
    /\ n >= 1
    /\ Len(token) >= from + n
    /\ from = 2 => token[1] = "."
    /\ \A i \in from..(from + n - 1) : IsBareChar(token[i])
    /\ ~IsBareChar(token[from + n])

C18_BareSegmentOneAccessor ==
    \A from \in 1..2 : \A n \in 1..Len(token) :
        IsBody /\ BareSegment(from, n) =>
            /\ Len(ParsedPath) >= 1
            /\ IF AllDecimal(from, from + n - 1)
               THEN IsIndex(ParsedPath[1], Number(from, from + n - 1))
               ELSE ParsedPath[1] = ObjectKey(Text(from, from + n - 1))

(***************************************************************************)
(* C20: failure atomicity.  When put_value returns a type-conflict error   *)
(* the tree is exactly the tree before the call.                           *)
(***************************************************************************)
C20_FailureAtomic ==
    result \in {"expect object root", "expect array root"} =>
        pc = "err" /\ root = prev_root

C20_Witness ==
    /\ result = "expect object root"
    /\ Len(Last.path) = 2
    /\ Last.path[1].k = "ArrayIndex"
    /\ Last.path[2].k = "ObjectKey"
    /\ is_array(prev_root)
    /\ Follow(prev_root, <<Last.path[1]>>).k = "string"
    /\ root = prev_root

(***************************************************************************)
(* C21: frame of a successful put_value with a non-empty path.  At every   *)
(* level of the path, the object members under a key other than the key    *)
(* taken and the array elements that existed at an index other than the    *)
(* index taken are the same after the call as before; no member and no     *)
(* element is removed; the same holds below the node taken, for the rest   *)
(* of the path.                                                            *)
(***************************************************************************)
RECURSIVE Framed(_, _, _)
Framed(before, after, path) ==
    IF path = <<>> THEN TRUE
    ELSE LET acc == Head(path)
         IN CASE acc.k = "ObjectKey" ->
                  /\ is_object(after)
                  /\ acc.key \in DOMAIN after.m
                  /\ is_object(before) =>
                        /\ DOMAIN before.m \subseteq DOMAIN after.m
                        /\ \A key \in DOMAIN before.m \ {acc.key} :
                              after.m[key] = before.m[key]
                  /\ ~is_object(before) => DOMAIN after.m = {acc.key}
                  /\ Framed(Before(before, <<acc>>), after.m[acc.key], Tail(path))
              [] acc.k \in {"ArrayIndex", "ArrayEnd"} ->
                  LET old == IF is_array(before) THEN before.e ELSE <<>>
                      taken == IF acc.k = "ArrayEnd" THEN Len(old) ELSE acc.index
                  IN /\ is_array(after)
                     /\ Len(after.e) >= Len(old)
                     /\ Len(after.e) > taken
                     /\ \A x \in 0..(Len(old) - 1) :
                           x # taken => after.e[x + 1] = old[x + 1]
                     /\ Framed(IF taken < Len(old) THEN old[taken + 1] ELSE Null,
                               after.e[taken + 1], Tail(path))

C21_Frame == Succeeded /\ Last.path # <<>> => Framed(prev_root, root, Last.path)

\* the third fragment writes a[1] in a tree that holds a[0] and b
C21_Witness ==
    /\ Succeeded
    /\ Len(values) = 3
    /\ Last.path = <<ObjectKey("a"), ArrayIndex(1)>>
    /\ is_object(prev_root)
    /\ DOMAIN prev_root.m = {"a", "b"}
    /\ is_array(prev_root.m["a"])
    /\ Len(prev_root.m["a"].e) = 1
    /\ ~is_null(prev_root.m["a"].e[1])
    /\ root.m["b"] = prev_root.m["b"]
    /\ root.m["a"].e[1] = prev_root.m["a"].e[1]
    /\ Len(root.m["a"].e) = 2

(***************************************************************************)
(* Vocabulary of the tokens with an empty value.                           *)
(***************************************************************************)
\* token = <key><op>, key of n characters without '='
KeyThen(n, op) ==
    /\ n >= 1
    /\ Len(token) = n + Len(op)
    /\ \A i \in 1..n : token[i] # "="
    /\ SubSeq(token, n + 1, Len(token)) = op

\* token = <name>:, name of n token characters
NameColon(n) ==
    /\ n >= 1
    /\ Len(token) = n + 1
    /\ \A i \in 1..n : IsTokenChar(token[i])
    /\ token[n + 1] = ":"

\* the first n characters of the token are, as a whole, a body path
KeyPath(n) == many0_path_access(SubSeq(token, 1, n), <<>>)
KeyIsPath(n) == KeyPath(n).ok /\ KeyPath(n).rest = <<>>

\* the first n characters are one run of bare characters without a leading
\* digit
PlainKey(n) ==
    /\ n >= 1
    /\ \A i \in 1..n : IsBareChar(token[i])
    /\ ~IsDecimal(token[1])

IsFragment(kind, path, text) ==
    /\ IsBody
    /\ component.component.value = [k |-> kind, path |-> path, value |-> text]

(***************************************************************************)
(* C22: empty values.  A token <key>== or <key>= is never a query          *)
(* parameter.  When <key> is a body path it is the Literal fragment of     *)
(* that path, with value '=' after '==' and the empty value after '=', and *)
(* a key that is one bare run without a leading digit is the path of that  *)
(* one ObjectKey.  A token <name>: with nothing after ':' fails            *)
(* classification.  At the edge of the claim, a key that is not a body     *)
(* path: when it is a body path followed by ':' the operator read is ':='  *)
(* and the fragment is Raw, with the same value; otherwise the token is no *)
(* body fragment.                                                          *)
(***************************************************************************)
EmptyValueOf(n, op, text) ==
    KeyThen(n, op) =>
        /\ ~(component.ok /\ component.component.k = "QueryParam")
        /\ IF KeyIsPath(n)
           THEN /\ IsFragment("String", KeyPath(n).out, text)
                /\ PlainKey(n) => KeyPath(n).out = <<ObjectKey(Text(1, n))>>
           ELSE IF token[n] = ":" /\ KeyIsPath(n - 1)
           THEN IsFragment("JSON", KeyPath(n - 1).out, text)
           ELSE ~IsBody

====
